---- MODULE Spec2Model ----
(***************************************************************************)
(* A model of crabml-core/src/cpu/cpu_device.rs: the CPU tensor device,    *)
(* its lazily built gelu cache (OnceLock), its worker pool handle (Mutex)  *)
(* and its debug capture store (Mutex<HashMap>), as called by NumThreads   *)
(* concurrent threads.                                                     *)
(***************************************************************************)
EXTENDS Integers, Sequences, FiniteSets, TLC

\* ------------------------------------------------------------ bounds

\* Number of threads sharing one device (Arc<CpuTensorDevice>).
NumThreads == 2

\* Number of entries of a lookup table in the model (65536 in the code).
TableLen == 2

\* Number of submissions of the sequential submitter (1000 in the scenario).
MaxSubmits == 6

Threads == 1..NumThreads

\* ------------------------------------------------------------ values

\* Option<T>: None is the empty tuple, Some(v) the one-element tuple.
None == <<>>

Some(v) == <<v>>

\* Tensor names used by the callers.
Names == {"a", "b"}

\* Contents of a tensor as iter_f32() yields them (Vec<f32>).
Snapshots == {<<>>, <<1>>}

\* Values of TensorMetrics handles (identity of the shared counters object).
MetricsHandles == {"m0"}

\* Values of thread_num a configuration is given.
ThreadNums == {4}

\* CpuTensorDeviceOptions
Configs == [debug_named_tensors : BOOLEAN, metrics : MetricsHandles, thread_num : ThreadNums]

\* A tensor as add_debug_tensor sees it: its optional name and its contents.
Tensors == [name : {None} \cup {Some(n) : n \in Names}, data : Snapshots]

\* ------------------------------------------------------------ state

VARIABLES
    opts,           \* CpuTensorDevice::opts
    metrics,        \* CpuTensorDevice::metrics
    exp_cache,      \* CpuTensorDevice::exp_cache (Arc<Vec<f16>>)
    gelu_cache,     \* CpuTensorDevice::gelu_cache (OnceLock<Vec<f16>>)
    thread_pool,    \* CpuTensorDevice::thread_pool (Mutex<ThreadPool>)
    debug_tensors,  \* CpuTensorDevice::debug_tensors (Mutex<HashMap<String, Vec<f32>>>)
    pc,             \* where each thread is inside the operation it called
    arg,            \* the argument of the call each thread is in
    buf,            \* each thread's local Vec under construction
    ret,            \* what each thread's last call returned
    init_count,     \* how many times init_gelu_cache has been entered
    captured,       \* per name, the snapshot of the last capture that returned
    cfg,            \* the CpuTensorDeviceOptions value the caller assembles
    ctor,           \* the constructor that made the device ("none": not made yet)
    submitted,      \* submissions the sequential submitter has completed
    in_flight,      \* batches the worker pool is still executing
    last_read       \* the thread whose capture read its tensor's contents last

vars == <<opts, metrics, exp_cache, gelu_cache, thread_pool, debug_tensors,
          pc, arg, buf, ret, init_count, captured,
          cfg, ctor, submitted, in_flight, last_read>>

\* What only the configuration, submission and capture-order scenarios move.
scenario == <<cfg, ctor, submitted, in_flight, last_read>>

NoArg == [name |-> None, data |-> <<>>]

NoRet == [op |-> "none", val |-> None]

\* ------------------------------------------------------------ tables

\* Entry x of the exp table: f16::from_f32(f16::from_bits(x).to_f32().exp()),
\* kept as the term that names the computation.
ExpEntry(x) == [fn |-> "exp", bits |-> x]

\* Entry x of the gelu table: f16::from_f32(gelu_single(f16::from_bits(x).to_f32())).
GeluEntry(x) == [fn |-> "gelu", bits |-> x]

\* init_exp_cache: (0..N).map(..).collect(); index x of the Vec is element x + 1.
init_exp_cache == [i \in 1..TableLen |-> ExpEntry(i - 1)]

\* The table init_gelu_cache returns when it has run to its end.
init_gelu_cache == [i \in 1..TableLen |-> GeluEntry(i - 1)]

\* ------------------------------------------------------------ construction

\* Mutex::new(v): not held, not poisoned.
MutexNew(v) == [holder |-> 0, poisoned |-> FALSE, data |-> v]

\* ThreadPool::new(n)
ThreadPoolNew(n) == [workers |-> n]

\* HashMap::new()
HashMapNew == [n \in {} |-> <<>>]

\* OnceLock::new()
OnceLockNew == [state |-> "incomplete", value |-> None]

\* CpuTensorDeviceOptions::default()
DefaultOptions == [debug_named_tensors |-> FALSE, metrics |-> "m0", thread_num |-> 1]

\* Faulty variant: the constructor clamps a thread_num of zero to one.
with_options_clamped(o) ==
    [opts |-> [o EXCEPT !.thread_num = IF o.thread_num = 0 THEN 1 ELSE o.thread_num],
     metrics |-> o.metrics,
     thread_pool |-> MutexNew(ThreadPoolNew(IF o.thread_num = 0 THEN 1 ELSE o.thread_num)),
     exp_cache |-> init_exp_cache,
     gelu_cache |-> OnceLockNew,
     debug_tensors |-> MutexNew(HashMapNew)]

\* CpuTensorDevice::with_options(o): the fields of the new device.
with_options(o) ==
    [opts |-> o,
     metrics |-> o.metrics,
     thread_pool |-> MutexNew(ThreadPoolNew(o.thread_num)),
     exp_cache |-> init_exp_cache,
     gelu_cache |-> OnceLockNew,
     debug_tensors |-> MutexNew(HashMapNew)]

\* CpuTensorDevice::new()
new == with_options(DefaultOptions)

\* Faulty variant: the mutator rebuilds the value from the defaults
\* (Self { thread_num, ..Default::default() }).
with_thread_num_from_default(c, n) == [DefaultOptions EXCEPT !.thread_num = n]

\* CpuTensorDeviceOptions::with_thread_num
with_thread_num(c, n) == [c EXCEPT !.thread_num = n]

\* Faulty variant: turning the debug flag on also forces a single thread.
with_debug_single_thread(c, b) ==
    [c EXCEPT !.debug_named_tensors = b, !.thread_num = IF b THEN 1 ELSE c.thread_num]

\* CpuTensorDeviceOptions::with_debug_named_tensors
with_debug_named_tensors(c, b) == [c EXCEPT !.debug_named_tensors = b]

\* CpuTensorDeviceOptions::with_metrics
with_metrics(c, m) == [c EXCEPT !.metrics = m]

Init ==
    \E o \in Configs :
        /\ opts = with_options(o).opts
        /\ metrics = with_options(o).metrics
        /\ thread_pool = with_options(o).thread_pool
        /\ exp_cache = with_options(o).exp_cache
        /\ gelu_cache = with_options(o).gelu_cache
        /\ debug_tensors = with_options(o).debug_tensors
        /\ pc = [t \in Threads |-> "idle"]
        /\ arg = [t \in Threads |-> NoArg]
        /\ buf = [t \in Threads |-> <<>>]
        /\ ret = [t \in Threads |-> NoRet]
        /\ init_count = 0
        /\ captured = HashMapNew
        /\ cfg = o
        /\ ctor = "with_options"
        /\ submitted = 0
        /\ in_flight = 0
        /\ last_read = 0

\* ------------------------------------------------------------ helpers

\* Faulty variant: a missing entry reads as an empty snapshot
\* (unwrap_or_default() on the lookup).
HashMapGetOrDefault(m, name) == IF name \in DOMAIN m THEN Some(m[name]) ELSE Some(<<>>)

\* Faulty variant: an entry holding an empty snapshot is reported as absent
\* (get(name).filter(|v| !v.is_empty())).
HashMapGetNonEmpty(m, name) ==
    IF name \in DOMAIN m /\ m[name] # <<>> THEN Some(m[name]) ELSE None

\* HashMap::get(name).cloned()
HashMapGet(m, name) == IF name \in DOMAIN m THEN Some(m[name]) ELSE None

\* Faulty variant: a capture under a name already present is appended to
\* the stored snapshot (entry().or_default().extend(v)).
HashMapInsertAppend(m, name, v) ==
    [n \in DOMAIN m \cup {name} |->
        IF n = name THEN (IF name \in DOMAIN m THEN m[name] \o v ELSE v) ELSE m[n]]

\* Faulty variant: the store is replaced by a map holding the new entry only.
HashMapInsertClobber(m, name, v) == [n \in {name} |-> v]

\* HashMap::insert(name, v): the entry under name is replaced.
HashMapInsert(m, name, v) ==
    [n \in DOMAIN m \cup {name} |-> IF n = name THEN v ELSE m[n]]

\* The capture under name that has just returned took the snapshot v.
RecordCapture(h, name, v) ==
    [n \in DOMAIN h \cup {name} |-> IF n = name THEN v ELSE h[n]]

device_fields == <<opts, metrics, exp_cache, gelu_cache, thread_pool, debug_tensors>>

ghosts == <<init_count, captured>>

\* A call returns v to thread t.
Return(t, op, v) ==
    /\ pc' = [pc EXCEPT ![t] = "idle"]
    /\ arg' = [arg EXCEPT ![t] = NoArg]
    /\ buf' = [buf EXCEPT ![t] = <<>>]
    /\ ret' = [ret EXCEPT ![t] = [op |-> op, val |-> v]]

\* Thread t panics (unwrap of None or of Err(PoisonError)) and unwinds.
Panic(t, cause) ==
    /\ pc' = [pc EXCEPT ![t] = "panicked"]
    /\ arg' = [arg EXCEPT ![t] = NoArg]
    /\ buf' = [buf EXCEPT ![t] = <<>>]
    /\ ret' = [ret EXCEPT ![t] = [op |-> "panic", val |-> cause]]

\* Thread t moves on inside its call.
Goto(t, label) ==
    /\ pc' = [pc EXCEPT ![t] = label]
    /\ UNCHANGED <<arg, buf, ret>>

\* ------------------------------------------------------------ accessors

\* metrics(&self) -> &TensorMetrics
Metrics(t) ==
    /\ pc[t] = "idle"
    /\ Return(t, "metrics", metrics)
    /\ UNCHANGED <<device_fields, ghosts>>
    /\ UNCHANGED scenario

\* thread_num(&self) -> usize
ThreadNum(t) ==
    /\ pc[t] = "idle"
    /\ Return(t, "thread_num", opts.thread_num)
    /\ UNCHANGED <<device_fields, ghosts>>
    /\ UNCHANGED scenario

\* exp_cache(&self) -> Arc<Vec<f16>>
ExpCache(t) ==
    /\ pc[t] = "idle"
    /\ Return(t, "exp_cache", exp_cache)
    /\ UNCHANGED <<device_fields, ghosts>>
    /\ UNCHANGED scenario

\* ------------------------------------------------------------ gelu cache

\* gelu_cache(&self): the call is entered.
GeluCache(t) ==
    /\ pc[t] = "idle"
    /\ pc' = [pc EXCEPT ![t] = "gelu_get"]
    /\ ret' = [ret EXCEPT ![t] = NoRet]
    /\ UNCHANGED <<arg, buf, device_fields, ghosts>>
    /\ UNCHANGED scenario

\* Faulty variant: the fast path hands out the cell's slot without looking at its state.
GeluGetUnchecked(t) ==
    /\ pc[t] = "gelu_get"
    /\ Return(t, "gelu_cache", gelu_cache.value)
    /\ UNCHANGED <<device_fields, ghosts>>
    /\ UNCHANGED scenario

\* Faulty variant: the fast path takes the value out of the cell (take()
\* for get()), leaving the cell empty for the next caller.
GeluGetTake(t) ==
    /\ pc[t] = "gelu_get"
    /\ IF gelu_cache.state = "complete"
         THEN /\ Return(t, "gelu_cache", gelu_cache.value)
              /\ gelu_cache' = [state |-> "incomplete", value |-> None]
         ELSE /\ Goto(t, "gelu_init")
              /\ UNCHANGED gelu_cache
    /\ UNCHANGED <<opts, metrics, exp_cache, thread_pool, debug_tensors, ghosts>>
    /\ UNCHANGED scenario

\* OnceLock::get_or_init, fast path: get() answers Some when the cell is
\* complete and the call returns the cell's value; otherwise initialize().
GeluGet(t) ==
    /\ pc[t] = "gelu_get"
    /\ IF gelu_cache.state = "complete"
         THEN Return(t, "gelu_cache", gelu_cache.value)
         ELSE Goto(t, "gelu_init")
    /\ UNCHANGED <<device_fields, ghosts>>
    /\ UNCHANGED scenario

\* Faulty variant: check-then-build without the once: every caller that finds the
\* cell not complete builds.
GeluInitializeRacy(t) ==
    /\ pc[t] = "gelu_init"
    /\ \/ /\ gelu_cache.state # "complete"
          /\ gelu_cache' = [gelu_cache EXCEPT !.state = "running"]
          /\ init_count' = init_count + 1
          /\ pc' = [pc EXCEPT ![t] = "gelu_build"]
          /\ buf' = [buf EXCEPT ![t] = <<>>]
          /\ UNCHANGED <<arg, ret, captured>>
       \/ /\ gelu_cache.state = "complete"
          /\ Return(t, "gelu_cache", gelu_cache.value)
          /\ UNCHANGED <<gelu_cache, ghosts>>
    /\ UNCHANGED <<opts, metrics, exp_cache, thread_pool, debug_tensors>>
    /\ UNCHANGED scenario

\* OnceLock::initialize -> Once::call_once_force: the one thread that finds
\* the cell incomplete marks it running and enters init_gelu_cache; a thread
\* that finds it running waits (no step); one that finds it complete returns.
GeluInitialize(t) ==
    /\ pc[t] = "gelu_init"
    /\ \/ /\ gelu_cache.state = "incomplete"
          /\ gelu_cache' = [gelu_cache EXCEPT !.state = "running"]
          /\ init_count' = init_count + 1
          /\ pc' = [pc EXCEPT ![t] = "gelu_build"]
          /\ buf' = [buf EXCEPT ![t] = <<>>]
          /\ UNCHANGED <<arg, ret, captured>>
       \/ /\ gelu_cache.state = "complete"
          /\ Return(t, "gelu_cache", gelu_cache.value)
          /\ UNCHANGED <<gelu_cache, ghosts>>
    /\ UNCHANGED <<opts, metrics, exp_cache, thread_pool, debug_tensors>>
    /\ UNCHANGED scenario

\* init_gelu_cache: one iteration of (0..65536).map(..), into the local Vec.
\* The closure holds no unwrap, index or lock: the build has no panicking
\* path, so the cell is never left poisoned by its builder.
GeluBuild(t) ==
    /\ pc[t] = "gelu_build"
    /\ Len(buf[t]) < TableLen
    /\ buf' = [buf EXCEPT ![t] = Append(buf[t], GeluEntry(Len(buf[t])))]
    /\ UNCHANGED <<pc, arg, ret, device_fields, ghosts>>
    /\ UNCHANGED scenario

\* Faulty variant: the builder returns its Vec and leaves the cell running.
GeluStoreNeverCompletes(t) ==
    /\ pc[t] = "gelu_build"
    /\ Len(buf[t]) = TableLen
    /\ Return(t, "gelu_cache", Some([id |-> init_count, data |-> buf[t]]))
    /\ UNCHANGED <<device_fields, ghosts>>
    /\ UNCHANGED scenario

\* init_gelu_cache has collected the Vec: the cell stores it, becomes
\* complete, and get_or_init returns the stored value to the builder.
GeluStore(t) ==
    /\ pc[t] = "gelu_build"
    /\ Len(buf[t]) = TableLen
    /\ gelu_cache' = [state |-> "complete", value |-> Some([id |-> init_count, data |-> buf[t]])]
    /\ Return(t, "gelu_cache", gelu_cache'.value)
    /\ UNCHANGED <<opts, metrics, exp_cache, thread_pool, debug_tensors, ghosts>>
    /\ UNCHANGED scenario

\* ------------------------------------------------------------ mutexes

\* Faulty variant: the handle is handed out without exclusion.
MutexFreeAlways(m) == TRUE

\* Mutex::lock() can be taken by a thread only while no thread holds it.
MutexFree(m) == m.holder = 0

\* Faulty variant: the poison flag is ignored
\* (lock().unwrap_or_else(|e| e.into_inner())).
MutexLockIgnoresPoison(m) == FALSE

\* Mutex::lock(): Err(PoisonError) when a holder panicked, Ok(guard) otherwise.
MutexLockIsErr(m) == m.poisoned

\* The guard is given to thread t.
MutexAcquire(m, t) == [m EXCEPT !.holder = t]

\* The guard is dropped by a thread that is not panicking.
MutexRelease(m) == [m EXCEPT !.holder = 0]

\* The guard is dropped while its thread unwinds from a panic: poisoned.
MutexReleasePanicking(m) == [m EXCEPT !.holder = 0, !.poisoned = TRUE]

\* ------------------------------------------------------------ debug store

\* dump_debug_tensor(&self, name): the call is entered.
DumpDebugTensor(t, name) ==
    /\ pc[t] = "idle"
    /\ pc' = [pc EXCEPT ![t] = "dump_lock"]
    /\ arg' = [arg EXCEPT ![t] = [name |-> Some(name), data |-> <<>>]]
    /\ ret' = [ret EXCEPT ![t] = NoRet]
    /\ UNCHANGED <<buf, device_fields, ghosts>>
    /\ UNCHANGED scenario

\* self.debug_tensors.lock().unwrap()
DumpLock(t) ==
    /\ pc[t] = "dump_lock"
    /\ MutexFree(debug_tensors)
    /\ IF MutexLockIsErr(debug_tensors)
         THEN /\ Panic(t, "store_poisoned")
              /\ UNCHANGED debug_tensors
         ELSE /\ debug_tensors' = MutexAcquire(debug_tensors, t)
              /\ Goto(t, "dump_get")
    /\ UNCHANGED <<opts, metrics, exp_cache, gelu_cache, thread_pool, ghosts>>
    /\ UNCHANGED scenario

\* .get(name).cloned(), the guard dropped at the end of the statement.
DumpGet(t) ==
    /\ pc[t] = "dump_get"
    /\ Return(t, "dump_debug_tensor", HashMapGet(debug_tensors.data, arg[t].name[1]))
    /\ debug_tensors' = MutexRelease(debug_tensors)
    /\ UNCHANGED <<opts, metrics, exp_cache, gelu_cache, thread_pool, ghosts>>
    /\ UNCHANGED scenario

\* Faulty variant: the call only notes the tensor; its contents are not
\* collected before the lock is asked for.
AddDebugTensorLazy(t, tensor) ==
    /\ pc[t] = "idle"
    /\ pc' = [pc EXCEPT ![t] = "add_lock"]
    /\ arg' = [arg EXCEPT ![t] = tensor]
    /\ buf' = [buf EXCEPT ![t] = <<>>]
    /\ ret' = [ret EXCEPT ![t] = NoRet]
    /\ UNCHANGED <<device_fields, ghosts>>

\* add_debug_tensor(&self, tensor): tensor.buf().iter_f32().collect() reads
\* the contents into buf before the lock is asked for.
AddDebugTensor(t, tensor) ==
    /\ pc[t] = "idle"
    /\ pc' = [pc EXCEPT ![t] = "add_lock"]
    /\ arg' = [arg EXCEPT ![t] = tensor]
    /\ buf' = [buf EXCEPT ![t] = tensor.data]
    /\ ret' = [ret EXCEPT ![t] = NoRet]
    /\ UNCHANGED <<device_fields, ghosts>>

\* Faulty variant: the store lock is taken only while the pool lock is
\* free (the two locks are nested).
AddLockBehindPool(t) ==
    /\ pc[t] = "add_lock"
    /\ MutexFree(debug_tensors)
    /\ MutexFree(thread_pool)
    /\ IF MutexLockIsErr(debug_tensors)
         THEN /\ Panic(t, "store_poisoned")
              /\ UNCHANGED debug_tensors
         ELSE /\ debug_tensors' = MutexAcquire(debug_tensors, t)
              /\ Goto(t, "add_name")
    /\ UNCHANGED <<opts, metrics, exp_cache, gelu_cache, thread_pool, ghosts>>
    /\ UNCHANGED scenario

\* self.debug_tensors.lock().unwrap()
AddLock(t) ==
    /\ pc[t] = "add_lock"
    /\ MutexFree(debug_tensors)
    /\ IF MutexLockIsErr(debug_tensors)
         THEN /\ Panic(t, "store_poisoned")
              /\ UNCHANGED debug_tensors
         ELSE /\ debug_tensors' = MutexAcquire(debug_tensors, t)
              /\ Goto(t, "add_name")
    /\ UNCHANGED <<opts, metrics, exp_cache, gelu_cache, thread_pool, ghosts>>
    /\ UNCHANGED scenario

\* Faulty variant: a tensor without a name is skipped (if let Some(name)).
AddNameSkip(t) ==
    /\ pc[t] = "add_name"
    /\ IF arg[t].name = None
         THEN /\ Return(t, "add_debug_tensor", None)
              /\ debug_tensors' = MutexRelease(debug_tensors)
         ELSE /\ Goto(t, "add_insert")
              /\ UNCHANGED debug_tensors
    /\ UNCHANGED <<opts, metrics, exp_cache, gelu_cache, thread_pool, ghosts>>
    /\ UNCHANGED scenario

\* Faulty variant: the name is unwrapped before the lock is asked for, so
\* the panic on None leaves the store unpoisoned.
AddNameUnpoisoned(t) ==
    /\ pc[t] = "add_name"
    /\ IF arg[t].name = None
         THEN /\ Panic(t, "unnamed")
              /\ debug_tensors' = MutexRelease(debug_tensors)
         ELSE /\ Goto(t, "add_insert")
              /\ UNCHANGED debug_tensors
    /\ UNCHANGED <<opts, metrics, exp_cache, gelu_cache, thread_pool, ghosts>>
    /\ UNCHANGED scenario

\* tensor.name.clone().unwrap(), evaluated as insert's argument while the
\* guard is alive: None panics, and the unwinding drops the guard.
AddName(t) ==
    /\ pc[t] = "add_name"
    /\ IF arg[t].name = None
         THEN /\ Panic(t, "unnamed")
              /\ debug_tensors' = MutexReleasePanicking(debug_tensors)
         ELSE /\ Goto(t, "add_insert")
              /\ UNCHANGED debug_tensors
    /\ UNCHANGED <<opts, metrics, exp_cache, gelu_cache, thread_pool, ghosts>>
    /\ UNCHANGED scenario

\* .insert(name, buf)
AddInsert(t) ==
    /\ pc[t] = "add_insert"
    /\ debug_tensors' = [debug_tensors EXCEPT
                           !.data = HashMapInsert(debug_tensors.data, arg[t].name[1], buf[t])]
    /\ Goto(t, "add_drop")
    /\ UNCHANGED <<opts, metrics, exp_cache, gelu_cache, thread_pool, ghosts>>
    /\ UNCHANGED scenario

\* The guard is dropped at the end of the statement and the call returns.
AddDrop(t) ==
    /\ pc[t] = "add_drop"
    /\ debug_tensors' = MutexRelease(debug_tensors)
    /\ captured' = RecordCapture(captured, arg[t].name[1], buf[t])
    /\ Return(t, "add_debug_tensor", arg[t].name)
    /\ UNCHANGED <<opts, metrics, exp_cache, gelu_cache, thread_pool, init_count>>
    /\ UNCHANGED scenario

\* The caller of add_debug_tensor (CpuTensor::with_name, and any kernel that
\* captures) calls it only on a device configured with debug_named_tensors.
CaptureEnabled == opts.debug_named_tensors

\* A caller captures a tensor.
Capture(t, tensor) ==
    /\ CaptureEnabled
    /\ AddDebugTensor(t, tensor)
    /\ UNCHANGED scenario

\* ------------------------------------------------------------ worker pool

\* Faulty variant: the accessor locks the mutex itself and leaks the guard
\* before it hands the reference out.
ThreadPoolHolding(t) ==
    /\ pc[t] = "idle"
    /\ pc' = [pc EXCEPT ![t] = "pool_lock"]
    /\ ret' = [ret EXCEPT ![t] = NoRet]
    /\ thread_pool' = MutexAcquire(thread_pool, t)
    /\ UNCHANGED <<arg, buf, opts, metrics, exp_cache, gelu_cache, debug_tensors, ghosts>>
    /\ UNCHANGED scenario

\* thread_pool(&self) -> &Mutex<ThreadPool>: the caller gets the handle.
ThreadPool(t) ==
    /\ pc[t] = "idle"
    /\ pc' = [pc EXCEPT ![t] = "pool_lock"]
    /\ ret' = [ret EXCEPT ![t] = NoRet]
    /\ UNCHANGED <<arg, buf, device_fields, ghosts>>
    /\ UNCHANGED scenario

\* The caller acquires the handle: thread_pool().lock().unwrap()
PoolLock(t) ==
    /\ pc[t] = "pool_lock"
    /\ MutexFree(thread_pool)
    /\ IF MutexLockIsErr(thread_pool)
         THEN /\ Panic(t, "pool_poisoned")
              /\ UNCHANGED thread_pool
         ELSE /\ thread_pool' = MutexAcquire(thread_pool, t)
              /\ Goto(t, "pool_submit")
    /\ UNCHANGED <<opts, metrics, exp_cache, gelu_cache, debug_tensors, ghosts>>
    /\ UNCHANGED scenario

\* The caller's batch is handed to the pool and the guard is dropped.
PoolSubmitted(t) ==
    /\ pc[t] = "pool_submit"
    /\ thread_pool' = MutexRelease(thread_pool)
    /\ Return(t, "unit", None)
    /\ UNCHANGED <<opts, metrics, exp_cache, gelu_cache, debug_tensors, ghosts>>

\* The caller submits its batch and releases the handle (the pool's own
\* execution of the batch is followed only in SubmitSpec).
PoolSubmit(t) ==
    /\ PoolSubmitted(t)
    /\ UNCHANGED scenario

\* The caller terminates abnormally while it holds the handle.
PoolAbort(t) ==
    /\ pc[t] = "pool_submit"
    /\ thread_pool' = MutexReleasePanicking(thread_pool)
    /\ Panic(t, "submit")
    /\ UNCHANGED <<opts, metrics, exp_cache, gelu_cache, debug_tensors, ghosts>>
    /\ UNCHANGED scenario

\* ------------------------------------------------------------ specification

Next ==
    \E t \in Threads :
        \/ Metrics(t)
        \/ ThreadNum(t)
        \/ ExpCache(t)
        \/ GeluCache(t)
        \/ GeluGet(t)
        \/ GeluInitialize(t)
        \/ GeluBuild(t)
        \/ GeluStore(t)
        \/ \E name \in Names : DumpDebugTensor(t, name)
        \/ DumpLock(t)
        \/ DumpGet(t)
        \/ \E tensor \in Tensors : Capture(t, tensor)
        \/ AddLock(t)
        \/ AddName(t)
        \/ AddInsert(t)
        \/ AddDrop(t)
        \/ ThreadPool(t)
        \/ PoolLock(t)
        \/ PoolSubmit(t)
        \/ PoolAbort(t)

Spec == Init /\ [][Next]_vars

\* The steps of thread t inside gelu_cache().
GeluStep(t) == GeluGet(t) \/ GeluInitialize(t) \/ GeluBuild(t) \/ GeluStore(t)

\* A thread inside gelu_cache() that can take a step is scheduled again.
FairSpec == Spec /\ \A t \in Threads : WF_vars(GeluStep(t))

\* ------------------------------------------------------------ captures observed

\* A caller captures a tensor; last_read notes the thread whose call read
\* its tensor's contents most recently.
ObservedCapture(t, tensor) ==
    /\ CaptureEnabled
    /\ AddDebugTensor(t, tensor)
    /\ last_read' = t
    /\ UNCHANGED <<cfg, ctor, submitted, in_flight>>

\* Threads calling add_debug_tensor and nothing else.
CaptureNext ==
    \E t \in Threads :
        \/ \E tensor \in Tensors : ObservedCapture(t, tensor)
        \/ AddLock(t)
        \/ AddName(t)
        \/ AddInsert(t)
        \/ AddDrop(t)

CaptureSpec == Init /\ [][CaptureNext]_vars

\* ------------------------------------------------------------ configuration

\* The values the callers give the mutators.
CfgThreadNums == {0, 1, 4}

CfgMetrics == {"m0", "m1"}

\* Everything but the configuration being assembled.
not_cfg == <<device_fields, pc, arg, buf, ret, ghosts, ctor, submitted, in_flight, last_read>>

\* opts.with_thread_num(n), before the device is made.
WithThreadNum(n) ==
    /\ ctor = "none"
    /\ cfg' = with_thread_num(cfg, n)
    /\ UNCHANGED not_cfg

\* opts.with_debug_named_tensors(b)
WithDebugNamedTensors(b) ==
    /\ ctor = "none"
    /\ cfg' = with_debug_named_tensors(cfg, b)
    /\ UNCHANGED not_cfg

\* opts.with_metrics(m)
WithMetrics(m) ==
    /\ ctor = "none"
    /\ cfg' = with_metrics(cfg, m)
    /\ UNCHANGED not_cfg

\* The device's fields become those of d.
Construct(d) ==
    /\ opts' = d.opts
    /\ metrics' = d.metrics
    /\ thread_pool' = d.thread_pool
    /\ exp_cache' = d.exp_cache
    /\ gelu_cache' = d.gelu_cache
    /\ debug_tensors' = d.debug_tensors

\* CpuTensorDevice::new()
New ==
    /\ ctor = "none"
    /\ Construct(new)
    /\ ctor' = "new"
    /\ pc' = [t \in Threads |-> "idle"]
    /\ UNCHANGED <<arg, buf, ret, ghosts, cfg, submitted, in_flight, last_read>>

\* CpuTensorDevice::with_options(cfg)
WithOptions ==
    /\ ctor = "none"
    /\ Construct(with_options(cfg))
    /\ ctor' = "with_options"
    /\ pc' = [t \in Threads |-> "idle"]
    /\ UNCHANGED <<arg, buf, ret, ghosts, cfg, submitted, in_flight, last_read>>

\* Before construction: the default configuration and no device yet, so no
\* thread can call it.
ConfigInit ==
    /\ cfg = DefaultOptions
    /\ ctor = "none"
    /\ opts = None
    /\ metrics = None
    /\ thread_pool = None
    /\ exp_cache = None
    /\ gelu_cache = None
    /\ debug_tensors = None
    /\ pc = [t \in Threads |-> "no_device"]
    /\ arg = [t \in Threads |-> NoArg]
    /\ buf = [t \in Threads |-> <<>>]
    /\ ret = [t \in Threads |-> NoRet]
    /\ init_count = 0
    /\ captured = HashMapNew
    /\ submitted = 0
    /\ in_flight = 0
    /\ last_read = 0

\* The configuration is assembled, the device is made, and threads then
\* read it and call gelu_cache().
ConfigNext ==
    \/ \E n \in CfgThreadNums : WithThreadNum(n)
    \/ \E b \in BOOLEAN : WithDebugNamedTensors(b)
    \/ \E m \in CfgMetrics : WithMetrics(m)
    \/ New
    \/ WithOptions
    \/ \E t \in Threads :
          \/ Metrics(t)
          \/ ThreadNum(t)
          \/ ExpCache(t)
          \/ GeluCache(t)
          \/ GeluGet(t)
          \/ GeluInitialize(t)
          \/ GeluBuild(t)
          \/ GeluStore(t)

ConfigSpec == ConfigInit /\ [][ConfigNext]_vars

\* ------------------------------------------------------------ sequential submission

\* The one thread of the submission scenario.
Submitter == 1

\* The submitter asks the device for the handle, once per submission.
SeqThreadPool ==
    /\ submitted < MaxSubmits
    /\ ThreadPool(Submitter)

\* The submitter acquires the handle.
SeqPoolLock == PoolLock(Submitter)

\* The submitter hands its batch to the pool and releases the handle; the
\* pool executes the batch in the background.
SeqSubmit ==
    /\ PoolSubmitted(Submitter)
    /\ submitted' = submitted + 1
    /\ in_flight' = in_flight + 1
    /\ UNCHANGED <<cfg, ctor, last_read>>

\* The pool finishes one of the batches it is executing; it needs no lock.
PoolExecute ==
    /\ in_flight > 0
    /\ in_flight' = in_flight - 1
    /\ UNCHANGED <<device_fields, pc, arg, buf, ret, ghosts, cfg, ctor, submitted, last_read>>

SubmitStep == SeqThreadPool \/ SeqPoolLock \/ SeqSubmit

SubmitNext == SubmitStep \/ PoolExecute

\* A device constructed with thread_num = 4.
SubmitInit == Init /\ opts.thread_num = 4

\* The submitter keeps running; nothing is assumed of the pool's speed.
SubmitSpec == SubmitInit /\ [][SubmitNext]_vars /\ WF_vars(SubmitStep)

\* ------------------------------------------------------------ properties

GeluPcs == {"gelu_get", "gelu_init", "gelu_build"}

AddPcs == {"add_lock", "add_name", "add_insert", "add_drop"}

\* The gelu table is built: the cell holds a value.
GeluBuilt == gelu_cache.value # None

\* Thread t's last call was gelu_cache() and it has returned.
GeluReturned(t) == pc[t] = "idle" /\ ret[t].op = "gelu_cache"

\* C1: init_gelu_cache is entered at most once over the device's life, and
\* exactly once as soon as the cell has left its initial state or any call
\* of gelu_cache() has returned.
C1_InitGeluCacheOnce ==
    /\ init_count <= 1
    /\ (gelu_cache.state # "incomplete") => init_count = 1
    /\ \A t \in Threads : (GeluReturned(t) \/ pc[t] = "gelu_build") => init_count = 1
    /\ Cardinality({t \in Threads : pc[t] = "gelu_build"}) <= 1

\* C1 witness: the builder has returned the table while a concurrent first
\* caller, which went past the fast path before the build ended, is still
\* inside initialize().
C1_Witness ==
    \E t, u \in Threads :
        /\ t # u
        /\ GeluReturned(t)
        /\ pc[u] = "gelu_init"
        /\ init_count = 1

\* C2: a call of gelu_cache() that has returned has returned the complete
\* table that the cell holds: never an unbuilt or partly built one, and
\* every return is the same table in identity and contents.
C2_GeluReturnsBuiltTable ==
    /\ \A t \in Threads :
          GeluReturned(t) =>
             /\ gelu_cache.state = "complete"
             /\ ret[t].val # None
             /\ ret[t].val = gelu_cache.value
             /\ ret[t].val[1].data = init_gelu_cache
    /\ \A t, u \in Threads :
          (GeluReturned(t) /\ GeluReturned(u)) => ret[t].val = ret[u].val
    /\ GeluBuilt <=> gelu_cache.state = "complete"

\* C2 witness: two threads have both returned from gelu_cache().
C2_Witness ==
    \E t, u \in Threads : t # u /\ GeluReturned(t) /\ GeluReturned(u) /\ ret[t].val # None

\* C3: under fair scheduling of the threads inside gelu_cache(), every call
\* of gelu_cache() returns; and once the cell is complete a call in its fast
\* path or in initialize() can return at once, whatever the other threads do.
C3_GeluCacheReturns ==
    /\ \A t \in Threads : (pc[t] \in GeluPcs) ~> GeluReturned(t)
    /\ [](\A t \in Threads :
            (gelu_cache.state = "complete" /\ pc[t] \in {"gelu_get", "gelu_init"})
               => ENABLED GeluStep(t))

\* C3 witness: a first caller is blocked in initialize() while another
\* thread builds.
C3_Witness ==
    \E t, u \in Threads :
        /\ pc[t] = "gelu_build"
        /\ pc[u] = "gelu_init"
        /\ gelu_cache.state = "running"

\* C4: no step changes opts, the metrics handle, the exp cache or the pool
\* the handle protects; the gelu cell's value changes only from unbuilt to
\* built and never after it is built.
C4_DeviceFieldsFrozen ==
    [][ /\ opts' = opts
        /\ metrics' = metrics
        /\ exp_cache' = exp_cache
        /\ thread_pool'.data = thread_pool.data
        /\ GeluBuilt => gelu_cache' = gelu_cache
        /\ (gelu_cache'.value # gelu_cache.value) =>
               (gelu_cache.value = None /\ gelu_cache'.state = "complete") ]_vars

\* C4 witness: the gelu table is built, the debug store holds a capture, and
\* accessors have returned.
C4_Witness ==
    /\ GeluBuilt
    /\ DOMAIN debug_tensors.data # {}
    /\ \E t, u \in Threads : t # u /\ GeluReturned(t) /\ ret[u].op = "exp_cache"

\* The snapshot the store gives for name n (None: not found).
Stored(n) == HashMapGet(debug_tensors.data, n)

\* Thread t takes a step.
Steps(t) == pc'[t] # pc[t] \/ ret'[t] # ret[t] \/ buf'[t] # buf[t]

\* C5: dump_debug_tensor(n) returns not found when no capture under n has
\* returned, and otherwise exactly the snapshot of the last capture under n
\* that returned; whenever the store lock is free the store holds, per name,
\* that snapshot and nothing else.
C5_DumpReturnsLastCapture ==
    [][ /\ \A t \in Threads :
             (pc[t] = "dump_get" /\ pc'[t] = "idle") =>
                 /\ ret'[t].op = "dump_debug_tensor"
                 /\ ret'[t].val = (IF arg[t].name[1] \in DOMAIN captured
                                     THEN Some(captured[arg[t].name[1]])
                                     ELSE None)
        /\ (debug_tensors'.holder = 0) => (debug_tensors'.data = captured') ]_vars

\* C5 witness: a dump of "a" returned the snapshot <<1>>, and a later capture
\* under "a" has replaced it by the empty snapshot.
C5_Witness ==
    /\ \E t \in Threads :
          /\ pc[t] = "idle"
          /\ ret[t] = [op |-> "dump_debug_tensor", val |-> Some(<<1>>)]
    /\ debug_tensors.holder = 0
    /\ DOMAIN debug_tensors.data = {"a"}
    /\ debug_tensors.data["a"] = <<>>

\* C6: a capture of a named tensor that has acquired the store lock goes on
\* to insert and return; the entry of a name changes only by the insert of a
\* capture under that name, which stores that capture's snapshot, and no
\* step removes an entry.
C6_CapturesIndependent ==
    [][ /\ \A t \in Threads :
             (pc[t] \in {"add_name", "add_insert", "add_drop"} /\ arg[t].name # None)
                 => pc'[t] # "panicked"
        /\ \A t \in Threads :
             (pc[t] = "add_lock" /\ pc'[t] = "panicked") => debug_tensors.poisoned
        /\ \A n \in Names :
             (Stored(n)' # Stored(n)) =>
                 \E t \in Threads :
                     /\ pc[t] = "add_insert"
                     /\ pc'[t] = "add_drop"
                     /\ arg[t].name = Some(n)
                     /\ Stored(n)' = Some(buf[t])
        /\ \A t \in Threads :
             (pc[t] = "add_drop" /\ pc'[t] = "idle") =>
                 HashMapGet(debug_tensors'.data, arg[t].name[1]) = Some(buf[t]) ]_vars

\* C6 witness: thread 1's last call captured under "a", thread 2's under
\* "b", and the store holds both snapshots.
C6_Witness ==
    /\ pc[1] = "idle" /\ ret[1] = [op |-> "add_debug_tensor", val |-> Some("a")]
    /\ pc[2] = "idle" /\ ret[2] = [op |-> "add_debug_tensor", val |-> Some("b")]
    /\ Stored("a") = Some(<<1>>)
    /\ Stored("b") = Some(<<>>)

\* C7: a capture of a tensor without a name never inserts and never returns:
\* its steps lead only to the name check and from there to the panic, and
\* none of them changes the entries of the store.
C7_UnnamedCaptureFails ==
    [][ \A t \in Threads :
           (pc[t] \in AddPcs /\ arg[t].name = None /\ Steps(t)) =>
               /\ pc[t] \in {"add_lock", "add_name"}
               /\ pc'[t] \in {"add_name", "panicked"}
               /\ pc[t] = "add_name" => pc'[t] = "panicked"
               /\ debug_tensors'.data = debug_tensors.data ]_vars

\* C7 witness: a capture of an unnamed tensor has panicked on a store that
\* holds an entry.
C7_Witness ==
    /\ \E t \in Threads : pc[t] = "panicked" /\ ret[t].val = "unnamed"
    /\ DOMAIN debug_tensors.data # {}

StaysPoisoned(m, mNext) ==
    m.poisoned => (mNext.poisoned /\ m.holder = 0 /\ mNext.holder = 0 /\ mNext.data = m.data)

\* C9: a lock that a panicking holder released stays poisoned; from then on
\* no thread holds it, what it protects is not changed, and every thread
\* that asks for it (add_debug_tensor, dump_debug_tensor, the pool's
\* callers) panics.
C9_PoisonIsPermanent ==
    [][ /\ StaysPoisoned(debug_tensors, debug_tensors')
        /\ StaysPoisoned(thread_pool, thread_pool')
        /\ \A t \in Threads :
             (pc[t] \in {"add_lock", "dump_lock"} /\ debug_tensors.poisoned /\ Steps(t))
                 => (pc'[t] = "panicked" /\ ret'[t].val = "store_poisoned")
        /\ \A t \in Threads :
             (pc[t] = "pool_lock" /\ thread_pool.poisoned /\ Steps(t))
                 => (pc'[t] = "panicked" /\ ret'[t].val = "pool_poisoned")
        /\ \A t \in Threads :
             (pc[t] = "add_name" /\ pc'[t] = "panicked") => debug_tensors'.poisoned
        /\ \A t \in Threads :
             (pc[t] = "pool_submit" /\ pc'[t] = "panicked") => thread_pool'.poisoned ]_vars

\* C9 witness: a thread has panicked on the poisoned store lock, with an
\* entry in the store it did not get to.
C9_Witness ==
    /\ debug_tensors.poisoned
    /\ DOMAIN debug_tensors.data # {}
    /\ \E t \in Threads : pc[t] = "panicked" /\ ret[t].val = "store_poisoned"

\* C10: at most one thread holds the pool handle, the holder is the thread
\* that is submitting, and a thread that asks for the handle while it is
\* held cannot take it.
C10_PoolMutualExclusion ==
    /\ Cardinality({t \in Threads : pc[t] = "pool_submit"}) <= 1
    /\ \A t \in Threads : (pc[t] = "pool_submit") <=> (thread_pool.holder = t)
    /\ \A t \in Threads :
          (pc[t] = "pool_lock" /\ thread_pool.holder # 0) => ~ENABLED PoolLock(t)

\* C10 witness: one thread holds the handle and another waits for it.
C10_Witness ==
    \E t, u \in Threads :
        /\ pc[t] = "pool_submit"
        /\ thread_pool.holder = t
        /\ pc[u] = "pool_lock"

\* C11: on a device with thread_num = 4 the sequential submitter never finds
\* the handle held or poisoned when it asks for it, never panics, and ends
\* with all its MaxSubmits submissions done, whatever the pool still executes.
C11_SequentialSubmitsComplete ==
    /\ [](pc[Submitter] = "pool_lock" =>
            (MutexFree(thread_pool) /\ ~MutexLockIsErr(thread_pool)))
    /\ [](pc[Submitter] # "panicked" /\ thread_pool.data.workers = 4)
    /\ <>(submitted = MaxSubmits /\ pc[Submitter] = "idle")

\* C11 witness: the last submission is done while the pool still executes
\* every batch it was given.
C11_Witness ==
    /\ submitted = MaxSubmits
    /\ in_flight = MaxSubmits
    /\ pc[Submitter] = "idle"
    /\ thread_pool.holder = 0

\* C12: from every configuration the callers can assemble, the three
\* mutators applied in any of the six orders give the same configuration;
\* with_thread_num(4) and with_debug_named_tensors(true) in either order give
\* a device with thread_num 4 and the flag on.
C12_MutatorsCommute ==
    /\ \A n \in CfgThreadNums, b \in BOOLEAN, m \in CfgMetrics :
          LET tdm == with_metrics(with_debug_named_tensors(with_thread_num(cfg, n), b), m)
              tmd == with_debug_named_tensors(with_metrics(with_thread_num(cfg, n), m), b)
              dtm == with_metrics(with_thread_num(with_debug_named_tensors(cfg, b), n), m)
              dmt == with_thread_num(with_metrics(with_debug_named_tensors(cfg, b), m), n)
              mtd == with_debug_named_tensors(with_thread_num(with_metrics(cfg, m), n), b)
              mdt == with_thread_num(with_debug_named_tensors(with_metrics(cfg, m), b), n)
          IN  tdm = tmd /\ tdm = dtm /\ tdm = dmt /\ tdm = mtd /\ tdm = mdt
    /\ LET td == with_options(with_debug_named_tensors(with_thread_num(cfg, 4), TRUE)).opts
           dt == with_options(with_thread_num(with_debug_named_tensors(cfg, TRUE), 4)).opts
       IN  /\ td = dt
           /\ td.thread_num = 4 /\ td.debug_named_tensors
           /\ dt.thread_num = 4 /\ dt.debug_named_tensors

\* C12 witness: a device made from a configuration that had the thread
\* count set to 4 and the flag turned on answers thread_num() = 4.
C12_Witness ==
    /\ ctor = "with_options"
    /\ opts.thread_num = 4
    /\ opts.debug_named_tensors
    /\ opts.metrics = "m1"
    /\ \E t \in Threads : ret[t] = [op |-> "thread_num", val |-> 4]

\* C13: each mutator gives a configuration whose own field is the value it
\* was given and whose two other fields are those of the configuration it
\* was applied to.
C13_MutatorSetsOneField ==
    /\ \A n \in CfgThreadNums :
          with_thread_num(cfg, n) =
             [debug_named_tensors |-> cfg.debug_named_tensors,
              metrics |-> cfg.metrics,
              thread_num |-> n]
    /\ \A b \in BOOLEAN :
          with_debug_named_tensors(cfg, b) =
             [debug_named_tensors |-> b,
              metrics |-> cfg.metrics,
              thread_num |-> cfg.thread_num]
    /\ \A m \in CfgMetrics :
          with_metrics(cfg, m) =
             [debug_named_tensors |-> cfg.debug_named_tensors,
              metrics |-> m,
              thread_num |-> cfg.thread_num]

\* C13 witness: all three fields of the configuration differ from the
\* defaults, before the device is made.
C13_Witness ==
    /\ ctor = "none"
    /\ cfg = [debug_named_tensors |-> TRUE, metrics |-> "m1", thread_num |-> 0]

\* The exp table is complete.
ExpBuilt ==
    /\ Len(exp_cache) = TableLen
    /\ \A i \in 1..TableLen : exp_cache[i] = ExpEntry(i - 1)

\* C14: a device made by new() has the fields with_options gives for the
\* default configuration (thread_num 1, flag off); a device made by
\* with_options(c) has c as its opts and c.thread_num workers, unclamped;
\* either has its exp table built, its debug store empty, and its gelu cell
\* unbuilt as long as no gelu_cache() call has entered the build; and
\* thread_num() returns the thread_num of the opts.
C14_ConstructedDevice ==
    /\ (ctor = "new") =>
          /\ opts = with_options(DefaultOptions).opts
          /\ metrics = with_options(DefaultOptions).metrics
          /\ thread_pool.data = with_options(DefaultOptions).thread_pool.data
          /\ opts.thread_num = 1
          /\ ~opts.debug_named_tensors
    /\ (ctor = "with_options") =>
          /\ opts = cfg
          /\ metrics = cfg.metrics
          /\ thread_pool.data.workers = cfg.thread_num
    /\ (ctor # "none") =>
          /\ ExpBuilt
          /\ debug_tensors = MutexNew(HashMapNew)
          /\ (init_count = 0) => gelu_cache = OnceLockNew
          /\ (gelu_cache.value # None) =>
                 init_count = 1
          /\ \A t \in Threads :
                 (ret[t].op = "thread_num") =>
                     ret[t].val = (IF ctor = "new" THEN 1 ELSE cfg.thread_num)

\* C14 witness: a device made by with_options with thread_num 0 has
\* answered thread_num() = 0 and its gelu cell is still unbuilt.
C14_Witness ==
    /\ ctor = "with_options"
    /\ cfg.thread_num = 0
    /\ \E t \in Threads : ret[t] = [op |-> "thread_num", val |-> 0]
    /\ gelu_cache = OnceLockNew

\* C16: the lookup step of dump_debug_tensor always returns normally; for a
\* name with no capture it returns the absent result, for a name whose last
\* capture was of a tensor with zero elements it returns a present, empty
\* sequence, and the two results differ.
C16_AbsentIsNotEmpty ==
    [][ \A t \in Threads :
          (pc[t] = "dump_get" /\ Steps(t)) =>
              /\ pc'[t] = "idle"
              /\ ret'[t].op = "dump_debug_tensor"
              /\ (arg[t].name[1] \notin DOMAIN captured) => ret'[t].val = None
              /\ (arg[t].name[1] \in DOMAIN captured) =>
                     /\ ret'[t].val # None
                     /\ (captured[arg[t].name[1]] = <<>>) => ret'[t].val = Some(<<>>)
              /\ Some(<<>>) # None
      ]_vars

\* C16 witness: one dump has returned a present, empty sequence and another
\* has returned the absent result, both normally.
C16_Witness ==
    \E t, u \in Threads :
        /\ pc[t] = "idle"
        /\ ret[t] = [op |-> "dump_debug_tensor", val |-> Some(<<>>)]
        /\ pc[u] = "idle"
        /\ ret[u] = [op |-> "dump_debug_tensor", val |-> None]

\* Some capture of an unnamed tensor has failed.
UnnamedFailed == \E u \in Threads : pc[u] = "panicked" /\ ret[u].val = "unnamed"

\* C17: a capture of an unnamed tensor on an unpoisoned store first gets
\* the store lock; its name check then fails while it holds the lock, and
\* the lock is left poisoned; once a capture has failed this way the store
\* is poisoned, and every add_debug_tensor and dump_debug_tensor call that
\* asks for the lock, from any thread and for any name, panics.
C17_UnnamedCapturePoisons ==
    [][ /\ UnnamedFailed => (debug_tensors.poisoned /\ debug_tensors'.poisoned)
        /\ \A t \in Threads :
             /\ (/\ pc[t] = "add_lock"
                 /\ arg[t].name = None
                 /\ ~debug_tensors.poisoned
                 /\ Steps(t)) =>
                    (pc'[t] = "add_name" /\ debug_tensors'.holder = t)
             /\ (pc[t] = "add_name" /\ arg[t].name = None /\ Steps(t)) =>
                    /\ debug_tensors.holder = t
                    /\ pc'[t] = "panicked"
                    /\ ret'[t].val = "unnamed"
                    /\ debug_tensors'.poisoned
                    /\ debug_tensors'.holder = 0
                    /\ debug_tensors'.data = debug_tensors.data
             /\ (UnnamedFailed /\ pc[t] \in {"add_lock", "dump_lock"} /\ Steps(t)) =>
                    (pc'[t] = "panicked" /\ ret'[t].val = "store_poisoned")
             /\ (UnnamedFailed /\ Steps(t)) =>
                    ~(pc'[t] = "idle" /\ ret'[t].op \in {"add_debug_tensor", "dump_debug_tensor"})
      ]_vars

\* C17 witness: a name was captured, then a capture of an unnamed tensor
\* failed, and a later call of another thread failed on the poisoned store.
C17_Witness ==
    \E t, u \in Threads :
        /\ pc[t] = "panicked" /\ ret[t].val = "unnamed"
        /\ pc[u] = "panicked" /\ ret[u].val = "store_poisoned"
        /\ "a" \in DOMAIN debug_tensors.data
        /\ "a" \in DOMAIN captured

\* C18: a thread inside add_debug_tensor has its tensor's whole contents in
\* its snapshot from before it asks for the lock; the store changes only by
\* the insert step of the thread that holds the lock, which puts that
\* thread's whole snapshot under its tensor's name and leaves every other
\* name alone; so every stored value is the snapshot of one capture, and
\* after an insert the value under the name is the inserter's snapshot,
\* whichever thread read its contents last.
C18_SnapshotInsertedWhole ==
    /\ [](\A t \in Threads :
            /\ (pc[t] \in AddPcs) => buf[t] = arg[t].data
            /\ (pc[t] = "add_lock") => debug_tensors.holder # t
            /\ (pc[t] \in {"add_name", "add_insert", "add_drop"}) => debug_tensors.holder = t
            /\ (pc[t] = "add_drop") => Stored(arg[t].name[1]) = Some(arg[t].data))
    /\ [](\A n \in DOMAIN debug_tensors.data : debug_tensors.data[n] \in Snapshots)
    /\ [][ (debug_tensors'.data # debug_tensors.data) =>
             \E t \in Threads :
                /\ pc[t] = "add_insert" /\ pc'[t] = "add_drop"
                /\ debug_tensors.holder = t
                /\ DOMAIN debug_tensors'.data = DOMAIN debug_tensors.data \cup {arg[t].name[1]}
                /\ debug_tensors'.data[arg[t].name[1]] = arg[t].data
                /\ \A n \in DOMAIN debug_tensors.data :
                      n # arg[t].name[1] => debug_tensors'.data[n] = debug_tensors.data[n]
      ]_vars

\* C18 witness: two captures of "a" ran concurrently; the thread that read
\* its contents last inserted first and has returned, and the store holds
\* the snapshot of the other thread, which inserted last.
C18_Witness ==
    \E t, u \in Threads :
        /\ t # u
        /\ pc[t] = "add_drop"
        /\ arg[t] = [name |-> Some("a"), data |-> <<1>>]
        /\ pc[u] = "idle"
        /\ ret[u] = [op |-> "add_debug_tensor", val |-> Some("a")]
        /\ captured = [n \in {"a"} |-> <<>>]
        /\ last_read = u
        /\ Stored("a") = Some(<<1>>)

\* The synchronisation primitives thread t holds.
Held(t) ==
    {p \in {"pool", "store", "gelu"} :
        \/ p = "pool" /\ thread_pool.holder = t
        \/ p = "store" /\ debug_tensors.holder = t
        \/ p = "gelu" /\ pc[t] = "gelu_build"}

\* Thread t is inside a call.
InCall(t) == pc[t] \notin {"idle", "panicked"}

\* Thread t can take the next step of the call it is in.
CanStep(t) ==
    \/ ENABLED GeluStep(t)
    \/ ENABLED (DumpLock(t) \/ DumpGet(t))
    \/ ENABLED (AddLock(t) \/ AddName(t) \/ AddInsert(t) \/ AddDrop(t))
    \/ ENABLED (PoolLock(t) \/ PoolSubmit(t) \/ PoolAbort(t))

\* C19: a thread holds at most one of the pool lock, the store lock and the
\* gelu build, and holds each only inside the call that takes it; an idle
\* thread can always call metrics(), thread_num() and exp_cache(), which
\* leave it idle; a thread waits only for the primitive its own call
\* takes (the store lock in add/dump_debug_tensor, the pool lock in pool
\* acquisition, the cell being built in gelu_cache()), whatever the state
\* of the other two; and whenever some thread is inside a call, some such
\* thread can take a step.
C19_NoCrossBlocking ==
    \A t \in Threads :
        /\ Cardinality(Held(t)) <= 1
        /\ ("store" \in Held(t)) <=> (pc[t] \in {"add_name", "add_insert", "add_drop", "dump_get"})
        /\ ("pool" \in Held(t)) <=> (pc[t] = "pool_submit")
        /\ (gelu_cache.state = "running") <=> (\E u \in Threads : "gelu" \in Held(u))
        /\ (pc[t] = "idle") =>
               (ENABLED Metrics(t) /\ ENABLED ThreadNum(t) /\ ENABLED ExpCache(t))
        /\ (pc[t] = "add_lock" /\ debug_tensors.holder = 0) => ENABLED AddLock(t)
        /\ (pc[t] = "dump_lock" /\ debug_tensors.holder = 0) => ENABLED DumpLock(t)
        /\ (pc[t] = "pool_lock" /\ thread_pool.holder = 0) => ENABLED PoolLock(t)
        /\ (pc[t] = "gelu_get") => ENABLED GeluGet(t)
        /\ (pc[t] = "gelu_init" /\ gelu_cache.state # "running") => ENABLED GeluInitialize(t)
        /\ (Held(t) # {}) => CanStep(t)
        /\ InCall(t) => \E u \in Threads : InCall(u) /\ CanStep(u)

\* C19 witness: one thread holds the pool lock and another the store lock
\* while the gelu table is not built yet.
C19_Witness ==
    \E t, u \in Threads :
        /\ pc[t] = "pool_submit"
        /\ pc[u] = "add_insert"
        /\ gelu_cache.state = "incomplete"

====
